---------------------------- MODULE Spec2Model ----------------------------
(***************************************************************************)
(* Calgary Housing & Demographics: the data cleaning module                *)
(* (clean_dataset.py) and the analyzer that consumes it                    *)
(* (calgary-housing-analysis.py).                                          *)
(*                                                                         *)
(* Text is modelled as a sequence of one-character strings, so that        *)
(* str.upper, str.strip, the substring test and the parse of a number      *)
(* are computed character by character.  A table (a pandas DataFrame) is a *)
(* sequence of records in row order.  A cell is a record with a field      *)
(* kind: "str" (text), "num" (a float, kept as a fraction in lowest        *)
(* terms), "nan" (NaN / pd.NA, the null of pandas) or "inf".               *)
(***************************************************************************)
EXTENDS Integers, Sequences, FiniteSets, TLC

VARIABLES
    census_csv,            \* pd.read_csv(census_path), columns renamed
    assess_csv,            \* pd.read_csv(assessment_path), columns renamed
    ward_csv,              \* pd.read_csv(ward_path), columns renamed
    ward_columns,          \* optional columns the ward file has
    merged,                \* the DataFrame load_and_prepare_data returns
    pc,                    \* where the run is
    comm_structure_value,  \* argument of a direct call of map_inner_city
    area_type,             \* what that call returned
    community,             \* get_user_input: the local variable community
    year,                  \* get_user_input: the local variable year
    user_community,        \* CalgaryHousingAnalyzer.user_community
    user_year              \* CalgaryHousingAnalyzer.user_year

\* the variables of the analyzer's dialogue
input_vars == <<community, year, user_community, user_year>>

\* the variables of the loader and of the classifier
load_vars == <<census_csv, assess_csv, ward_csv, ward_columns, merged,
               comm_structure_value, area_type>>

vars == <<census_csv, assess_csv, ward_csv, ward_columns, merged, pc,
          comm_structure_value, area_type, input_vars>>

----------------------------------------------------------------------------
(* Text *)

LowerAlpha ==
    <<"a", "b", "c", "d", "e", "f", "g", "h", "i", "j", "k", "l", "m", "n", "o", "p", "q", "r", "s", "t", "u", "v", "w", "x", "y", "z">>

UpperAlpha ==
    <<"A", "B", "C", "D", "E", "F", "G", "H", "I", "J", "K", "L", "M", "N", "O", "P", "Q", "R", "S", "T", "U", "V", "W", "X", "Y", "Z">>

Digits ==
    <<"0", "1", "2", "3", "4", "5", "6", "7", "8", "9">>

\* The characters of the model in code point order (str comparison).
CodePoints ==
    <<"\t", " ", ",", "-", ".", "/">> \o Digits \o UpperAlpha \o LowerAlpha

Chars == {CodePoints[i] : i \in 1..Len(CodePoints)}

IndexOf(seq, c) == CHOOSE i \in 1..Len(seq) : seq[i] = c

InSeq(seq, c) == \E i \in 1..Len(seq) : seq[i] = c

OrdOf == [c \in Chars |-> IndexOf(CodePoints, c)]

Ord(c) == OrdOf[c]

UpperOf ==
    [c \in Chars |->
        IF InSeq(LowerAlpha, c) THEN UpperAlpha[IndexOf(LowerAlpha, c)] ELSE c]

LowerOf ==
    [c \in Chars |->
        IF InSeq(UpperAlpha, c) THEN LowerAlpha[IndexOf(UpperAlpha, c)] ELSE c]

\* str.upper, one character
UpperCh(c) == UpperOf[c]

\* str.lower, one character
LowerCh(c) == LowerOf[c]

Upper(s) == [i \in 1..Len(s) |-> UpperCh(s[i])]

Lower(s) == [i \in 1..Len(s) |-> LowerCh(s[i])]

IsSpace(c) == c \in {" ", "\t"}

\* str.strip(): drop the leading and the trailing whitespace
Strip(s) ==
    LET keep == {i \in 1..Len(s) : ~IsSpace(s[i])}
        Min(S) == CHOOSE x \in S : \A y \in S : x <= y
        Max(S) == CHOOSE x \in S : \A y \in S : x >= y
    IN  IF keep = {} THEN <<>> ELSE SubSeq(s, Min(keep), Max(keep))

\* Python's  t in s  for two strings
Contains(s, t) ==
    \E i \in 0..(Len(s) - Len(t)) : SubSeq(s, i + 1, i + Len(t)) = t

\* Python's  a < b  for two strings
StrLess(a, b) ==
    \E i \in 1..(Len(a) + 1) :
        /\ i <= Len(b)
        /\ \A j \in 1..(i - 1) : a[j] = b[j]
        /\ (i = Len(a) + 1 \/ Ord(a[i]) < Ord(b[i]))

\* str.replace(",", "", regex=False)
RECURSIVE RemoveCommas(_)
RemoveCommas(s) ==
    IF s = <<>> THEN <<>>
    ELSE IF Head(s) = "," THEN RemoveCommas(Tail(s))
    ELSE <<Head(s)>> \o RemoveCommas(Tail(s))

----------------------------------------------------------------------------
(* Cells *)

NaN == [kind |-> "nan"]

Inf == [kind |-> "inf"]

Str(s) == [kind |-> "str", s |-> s]

RECURSIVE GCD(_, _)
GCD(a, b) == IF b = 0 THEN a ELSE GCD(b, a % b)

\* the float a / b, b > 0, a >= 0
Frac(a, b) ==
    LET g == GCD(a, b) IN [kind |-> "num", num |-> a \div g, den |-> b \div g]

Num(n) == [kind |-> "num", num |-> n, den |-> 1]

IsZero(v) == v.kind = "num" /\ v.num = 0

----------------------------------------------------------------------------
(* clean_dataset.py: constants *)

YEARS == {2016, 2017}

EXCLUDE_NAME ==
    <<"S", "Y", "S", "T", "E", "M", "/", "U", "N", "C", "L", "A", "S", "S", "I", "F", "I", "E", "D", "/", "R", "E", "S", "I", "D", "U", "A", "L", " ", "W", "A", "R", "D">>

InnerCity == <<"I", "n", "n", "e", "r", "-", "C", "i", "t", "y">>

Suburban == <<"S", "u", "b", "u", "r", "b", "a", "n">>

----------------------------------------------------------------------------
(* clean_dataset.py: map_inner_city *)

inner_city_structures ==
    { <<"I", "N", "N", "E", "R", " ", "C", "I", "T", "Y">>,
      <<"C", "E", "N", "T", "R", "E", " ", "C", "I", "T", "Y">>,
      <<"I", "N", "N", "E", "R", "-", "C", "I", "T", "Y">>,
      <<"C", "E", "N", "T", "E", "R", " ", "C", "I", "T", "Y">>,
      <<"D", "O", "W", "N", "T", "O", "W", "N">> }

inner_city_decades ==
    { <<"P", "R", "E", " ", "1", "9", "1", "0">>,
      <<"P", "R", "E", "-", "1", "9", "1", "0">>,
      <<"B", "E", "F", "O", "R", "E", " ", "1", "9", "1", "0">>,
      <<"1", "9", "1", "0", "S">>,
      <<"1", "9", "2", "0", "S">>,
      <<"1", "9", "3", "0", "S">>,
      <<"1", "9", "4", "0", "S">>,
      <<"1", "9", "5", "0", "S">>,
      <<"1", "9", "6", "0", "S">>,
      <<"1", "9", "7", "0", "S">>,
      <<"1", "9", "6", "0", "S", "/", "1", "9", "7", "0", "S">>,
      <<"1", "9", "6", "0", "/", "1", "9", "7", "0">>,
      <<"1", "9", "6", "0", "-", "1", "9", "7", "0">> }

suburban_structures ==
    { <<"B", "U", "I", "L", "D", "I", "N", "G", " ", "O", "U", "T">>,
      <<"B", "U", "I", "L", "D", "O", "U", "T">>,
      <<"B", "U", "I", "L", "D", " ", "O", "U", "T">>,
      <<"D", "E", "V", "E", "L", "O", "P", "I", "N", "G">>,
      <<"F", "U", "T", "U", "R", "E">>,
      <<"1", "9", "8", "0", "S">>,
      <<"1", "9", "9", "0", "S">>,
      <<"2", "0", "0", "0", "S">>,
      <<"2", "0", "1", "0", "S">>,
      <<"2", "0", "2", "0", "S">>,
      <<"N", "E", "W">>,
      <<"G", "R", "E", "E", "N", "F", "I", "E", "L", "D">> }

\* A bug: a structure that matches no rule is left unclassified.
map_inner_city_no_default(v) ==
    IF v.kind # "str" THEN Str(Suburban)
    ELSE LET structure == Strip(Upper(v.s)) IN
         IF structure \in inner_city_structures THEN Str(InnerCity)
         ELSE IF \E decade \in inner_city_decades : Contains(structure, decade)
             THEN Str(InnerCity)
         ELSE IF \E suburban \in suburban_structures : Contains(structure, suburban)
             THEN Str(Suburban)
         ELSE NaN

\* A bug: the structure is not trimmed before the exact match.
map_inner_city_no_strip(v) ==
    IF v.kind # "str" THEN Str(Suburban)
    ELSE LET structure == Upper(v.s) IN
         IF structure \in inner_city_structures THEN Str(InnerCity)
         ELSE IF \E decade \in inner_city_decades : Contains(structure, decade)
             THEN Str(InnerCity)
         ELSE Str(Suburban)

\* A bug: the suburban structures are looked for before the decades.
map_inner_city_suburban_first(v) ==
    IF v.kind # "str" THEN Str(Suburban)
    ELSE LET structure == Strip(Upper(v.s)) IN
         IF structure \in inner_city_structures THEN Str(InnerCity)
         ELSE IF \E suburban \in suburban_structures : Contains(structure, suburban)
             THEN Str(Suburban)
         ELSE IF \E decade \in inner_city_decades : Contains(structure, decade)
             THEN Str(InnerCity)
         ELSE Str(Suburban)

map_inner_city(v) ==
    IF v.kind # "str" THEN Str(Suburban)
    ELSE LET structure == Strip(Upper(v.s)) IN
         IF structure \in inner_city_structures THEN Str(InnerCity)
         ELSE IF \E decade \in inner_city_decades : Contains(structure, decade)
             THEN Str(InnerCity)
         ELSE IF \E suburban \in suburban_structures : Contains(structure, suburban)
             THEN Str(Suburban)
         ELSE Str(Suburban)

----------------------------------------------------------------------------
(* The category-label classifier (policy B), as the specification gives it *)

inner_city_categories ==
    { <<"C", "I", "T", "Y", " ", "C", "E", "N", "T", "R", "E">>,
      <<"E", "S", "T", "A", "B", "L", "I", "S", "H", "E", "D">>,
      <<"I", "N", "N", "E", "R", " ", "C", "I", "T", "Y">> }

\* A bug: the label is trimmed before the exact match.
map_inner_city_policy_b_strip(v) ==
    IF v.kind # "str" THEN Str(Suburban)
    ELSE IF Strip(Upper(v.s)) \in inner_city_categories THEN Str(InnerCity)
    ELSE Str(Suburban)

map_inner_city_policy_b(v) ==
    IF v.kind # "str" THEN Str(Suburban)
    ELSE IF Upper(v.s) \in inner_city_categories THEN Str(InnerCity)
    ELSE Str(Suburban)

----------------------------------------------------------------------------
(* clean_dataset.py: load_and_prepare_data, step by step *)

Absent == [kind |-> "absent"]   \* a cell of a column the table does not have

None == [kind |-> "none"]       \* None; also a local variable not yet assigned

Pending == [kind |-> "pending"] \* no value yet

\* A bug: the rows of the other years are kept.
FilterYears_none(df) == df

\* census[census["YEAR"].isin(YEARS)], assess[assess["YEAR"].isin(YEARS)]
FilterYears(df) ==
    LET InYears(r) == r.YEAR \in YEARS IN SelectSeq(df, InYears)

\* A bug: the names are stripped, their case is kept.
clean_names_no_upper(df) ==
    [i \in 1..Len(df) |->
        [df[i] EXCEPT !.COMMUNITY_NAME = Strip(@)]]

\* clean_names(df, COL_NAME): upper-case, then strip
clean_names(df) ==
    [i \in 1..Len(df) |->
        [df[i] EXCEPT !.COMMUNITY_NAME = Strip(Upper(@))]]

\* A bug: keep="last".
drop_duplicates_keep_last(df) ==
    LET keep == {i \in 1..Len(df) :
                    ~\E j \in (i + 1)..Len(df) :
                        /\ df[j].COMMUNITY_NAME = df[i].COMMUNITY_NAME
                        /\ df[j].YEAR = df[i].YEAR}
        Kept(r) == \E i \in keep : df[i] = r
    IN  SelectSeq(df, Kept)

\* assess.drop_duplicates(subset=[COL_NAME, "YEAR"], keep="first")
RECURSIVE drop_duplicates_from(_, _, _)
drop_duplicates_from(df, i, seen) ==
    IF i > Len(df) THEN <<>>
    ELSE LET key == <<df[i].COMMUNITY_NAME, df[i].YEAR>> IN
         IF key \in seen THEN drop_duplicates_from(df, i + 1, seen)
         ELSE <<df[i]>> \o drop_duplicates_from(df, i + 1, seen \cup {key})

\* A bug: the duplicates are kept.
drop_duplicates_none(df) == df

drop_duplicates(df) == drop_duplicates_from(df, 1, {})

\* A bug: the system rows are not removed.
drop_excluded_none(df) == df

\* df.drop(df[df[COL_NAME] == EXCLUDE_NAME].index)
drop_excluded(df) ==
    LET Real(r) == r.COMMUNITY_NAME # EXCLUDE_NAME IN SelectSeq(df, Real)

\* A bug: the census and the assessment table keep their columns.
drop_redundant_columns_none(df) == df

\* census.drop(columns=col, errors="ignore") for SECTOR and AREA_TYPE
drop_redundant_columns(df) ==
    [i \in 1..Len(df) |->
        [f \in (DOMAIN df[i]) \ {"SECTOR", "AREA_TYPE"} |-> df[i][f]]]

\* A bug: the fallback of the AREA_TYPE column is left empty.
ward_area_type_no_fallback(w, columns) ==
    IF "AREA_TYPE" \in columns THEN w.AREA_TYPE
    ELSE IF "COMM_STRUCTURE" \in columns THEN map_inner_city(w.COMM_STRUCTURE)
    ELSE NaN

\* the AREA_TYPE of a ward row: the column of the file if it has one, else
\* map_inner_city of COMM_STRUCTURE, else "Suburban"
ward_area_type(w, columns) ==
    IF "AREA_TYPE" \in columns THEN w.AREA_TYPE
    ELSE IF "COMM_STRUCTURE" \in columns THEN map_inner_city(w.COMM_STRUCTURE)
    ELSE Str(Suburban)

add_area_type(df, columns) ==
    [i \in 1..Len(df) |->
        [df[i] EXCEPT !.AREA_TYPE = ward_area_type(df[i], columns)]]

WardKey(r) == r.COMMUNITY_NAME

AssessKey(r) == <<r.COMMUNITY_NAME, r.YEAR>>

\* A bug: the merge with the ward table is not validated.
ward_keys_unchecked(ward) == TRUE

\* validate="m:1" of the first merge: the ward keys are unique
ward_keys_unique(ward) ==
    \A i, j \in 1..Len(ward) : WardKey(ward[i]) = WardKey(ward[j]) => i = j

\* validate="m:1" of the second merge: the assessment keys are unique
assess_keys_unique(assess) ==
    \A i, j \in 1..Len(assess) : AssessKey(assess[i]) = AssessKey(assess[j]) => i = j

\* the columns the ward table brings, empty: a left row without a match
NoWard(columns) ==
    [SECTOR |-> NaN, WARD |-> NaN,
     COMM_STRUCTURE |-> IF "COMM_STRUCTURE" \in columns THEN NaN ELSE Absent,
     comm_structure |-> IF "comm_structure" \in columns THEN NaN ELSE Absent,
     AREA_TYPE |-> NaN]

\* a census row and the ward row joined to it: the columns of both, the key
\* once; a column that both have, the key apart, comes out twice, with the
\* suffixes _x (left) and _y (right), and not under its own name
WithWard(l, w) ==
    LET shared == ((DOMAIN l) \cap (DOMAIN w)) \ {"COMMUNITY_NAME"}
        own == ((DOMAIN l) \cup (DOMAIN w)) \ shared
    IN  [f \in own \cup {g \o "_x" : g \in shared} \cup {g \o "_y" : g \in shared} |->
            IF f \in DOMAIN l /\ f \notin shared THEN l[f]
            ELSE IF f \in own THEN w[f]
            ELSE IF \E g \in shared : f = g \o "_x"
                THEN l[CHOOSE g \in shared : f = g \o "_x"]
            ELSE w[CHOOSE g \in shared : f = g \o "_y"]]

\* a merged row and the median assessment joined to it
WithAssessment(l, m) ==
    [f \in (DOMAIN l) \cup {"MEDIAN_ASSESSMENT"} |->
        IF f = "MEDIAN_ASSESSMENT" THEN m ELSE l[f]]

\* pd.merge(census, ward, on=COL_NAME, how="left"): the left rows in their
\* order, each once per matching ward row, or once with empty ward columns
RECURSIVE merge_ward(_, _, _)
merge_ward(left, ward, columns) ==
    IF left = <<>> THEN <<>>
    ELSE LET l == Head(left)
             Hit(w) == WardKey(w) = WardKey(l)
             hits == SelectSeq(ward, Hit)
         IN  (IF hits = <<>> THEN <<WithWard(l, NoWard(columns))>>
              ELSE [k \in 1..Len(hits) |-> WithWard(l, hits[k])])
             \o merge_ward(Tail(left), ward, columns)

\* A bug: how="inner", a left row without an assessment is lost.
RECURSIVE merge_assess_inner(_, _)
merge_assess_inner(left, assess) ==
    IF left = <<>> THEN <<>>
    ELSE LET l == Head(left)
             Hit(a) == AssessKey(a) = AssessKey(l)
             hits == SelectSeq(assess, Hit)
         IN  [k \in 1..Len(hits) |-> WithAssessment(l, hits[k].MEDIAN_ASSESSMENT)]
             \o merge_assess_inner(Tail(left), assess)

\* pd.merge(merged, assess, on=[COL_NAME, "YEAR"], how="left")
RECURSIVE merge_assess(_, _)
merge_assess(left, assess) ==
    IF left = <<>> THEN <<>>
    ELSE LET l == Head(left)
             Hit(a) == AssessKey(a) = AssessKey(l)
             hits == SelectSeq(assess, Hit)
         IN  (IF hits = <<>> THEN <<WithAssessment(l, NaN)>>
              ELSE [k \in 1..Len(hits) |->
                       WithAssessment(l, hits[k].MEDIAN_ASSESSMENT)])
             \o merge_assess(Tail(left), assess)

----------------------------------------------------------------------------
(* clean_dataset.py: the numeric columns and the derived columns *)

Error == [kind |-> "error"]     \* the conversion raises ValueError

IsDigits(s) == s # <<>> /\ \A i \in 1..Len(s) : InSeq(Digits, s[i])

RECURSIVE DigitsValue(_)
DigitsValue(s) ==
    IF s = <<>> THEN 0
    ELSE 10 * DigitsValue(SubSeq(s, 1, Len(s) - 1)) + (IndexOf(Digits, s[Len(s)]) - 1)

RECURSIVE Pow10(_)
Pow10(k) == IF k = 0 THEN 1 ELSE 10 * Pow10(k - 1)

RECURSIVE DigitsOf(_)
DigitsOf(n) ==
    IF n < 10 THEN <<Digits[n + 1]>> ELSE DigitsOf(n \div 10) \o <<Digits[(n % 10) + 1]>>

\* Series.astype(str), one cell: text stays, NaN is "nan", a float with an
\* integer value n is the digits of n followed by ".0"
AsText(v) ==
    IF v.kind = "str" THEN v.s
    ELSE IF v.kind = "nan" THEN <<"n", "a", "n">>
    ELSE DigitsOf(v.num) \o <<".", "0">>

\* float(text) for the texts of the model: "nan", digits, digits "." digits;
\* any other text raises ValueError
ParseFloat(s) ==
    LET dots == {i \in 1..Len(s) : s[i] = "."} IN
    IF Upper(s) = <<"N", "A", "N">> THEN NaN
    ELSE IF dots = {} THEN (IF IsDigits(s) THEN Num(DigitsValue(s)) ELSE Error)
    ELSE LET d == CHOOSE i \in dots : TRUE
             whole == SubSeq(s, 1, d - 1)
             frac == SubSeq(s, d + 1, Len(s))
         IN  IF Cardinality(dots) = 1 /\ IsDigits(whole) /\ IsDigits(frac)
                 THEN Frac(DigitsValue(whole) * Pow10(Len(frac)) + DigitsValue(frac),
                           Pow10(Len(frac)))
             ELSE Error

\* A bug: the missing value is not filled with 0.
to_numeric_no_fill(v) == ParseFloat(RemoveCommas(AsText(v)))

\* .astype(str).str.replace(",", "").astype(float).fillna(0), one cell
to_numeric(v) ==
    LET x == ParseFloat(RemoveCommas(AsText(v))) IN
    IF x.kind = "nan" THEN Num(0) ELSE x

\* A bug: the floor division // in place of /.
Divide_floor(x, y) ==
    IF x.kind = "nan" \/ y.kind = "nan" THEN NaN
    ELSE IF y.num = 0 THEN (IF x.num = 0 THEN NaN ELSE Inf)
    ELSE Num((x.num * y.den) \div (x.den * y.num))

\* Series / Series, one cell: a float division
Divide(x, y) ==
    IF x.kind = "nan" \/ y.kind = "nan" THEN NaN
    ELSE IF y.num = 0 THEN (IF x.num = 0 THEN NaN ELSE Inf)
    ELSE Frac(x.num * y.den, x.den * y.num)

\* A bug: the zero denominator is not replaced.
ratio_no_replace(x, y) == Divide(x, y)

\* x / y.replace(0, pd.NA), one cell
ratio(x, y) == Divide(x, IF IsZero(y) THEN NaN ELSE y)

NumericColumns == {"MEDIAN_ASSESSMENT", "RES_CNT", "DWELLINGS_VACANT", "DWELLINGS_TOTAL"}

convert_numeric(df) ==
    [i \in 1..Len(df) |->
        [f \in DOMAIN df[i] |->
            IF f \in NumericColumns THEN to_numeric(df[i][f]) ELSE df[i][f]]]

add_derived(df) ==
    [i \in 1..Len(df) |->
        LET r == df[i] IN
        [f \in (DOMAIN r) \cup {"ASSESSMENT_PER_PERSON", "VACANCY_RATE"} |->
            IF f = "ASSESSMENT_PER_PERSON" THEN ratio(r.MEDIAN_ASSESSMENT, r.RES_CNT)
            ELSE IF f = "VACANCY_RATE" THEN ratio(r.DWELLINGS_VACANT, r.DWELLINGS_TOTAL)
            ELSE r[f]]]

\* the order of the index (COMMUNITY_NAME, YEAR)
KeyLess(a, b) ==
    \/ StrLess(a.COMMUNITY_NAME, b.COMMUNITY_NAME)
    \/ a.COMMUNITY_NAME = b.COMMUNITY_NAME /\ a.YEAR < b.YEAR

\* A bug: the rows stay in the order of the census file.
sort_index_none(df) == df

\* merged.set_index([COL_NAME, "YEAR"]); merged.sort_index(): a stable sort
sort_index(df) ==
    LET before(i) == {j \in 1..Len(df) :
                         \/ KeyLess(df[j], df[i])
                         \/ ~KeyLess(df[i], df[j]) /\ j < i}
    IN  [k \in 1..Len(df) |->
            df[CHOOSE i \in 1..Len(df) : Cardinality(before(i)) = k - 1]]

----------------------------------------------------------------------------
(* clean_dataset.py: load_and_prepare_data *)

load_and_prepare_data(census, assess, ward, columns) ==
    LET ward1 == add_area_type(ward, columns)
        census1 == FilterYears(census)
        assess1 == FilterYears(assess)
        census2 == clean_names(census1)
        assess2 == clean_names(assess1)
        ward2 == clean_names(ward1)
        assess3 == drop_duplicates(assess2)
        census3 == drop_excluded(census2)
        assess4 == drop_excluded(assess3)
        ward3 == drop_excluded(ward2)
        census4 == drop_redundant_columns(census3)
        assess5 == drop_redundant_columns(assess4)
        merged1 == merge_ward(census4, ward3, columns)
        merged2 == merge_assess(merged1, assess5)
        merged3 == convert_numeric(merged2)
    IN  IF ~ward_keys_unique(ward3) THEN [raised |-> "MergeError", df |-> <<>>]
        ELSE IF ~assess_keys_unique(assess5)
            THEN [raised |-> "MergeError", df |-> <<>>]
        ELSE IF \E i \in 1..Len(merged3) : \E f \in NumericColumns :
                    merged3[i][f].kind = "error"
            THEN [raised |-> "ValueError", df |-> <<>>]
        ELSE [raised |-> "", df |-> sort_index(add_derived(merged3))]

----------------------------------------------------------------------------
(* The source files: the rows the three CSV files may hold *)

MaxRows == 3    \* rows of the three files together

Name_AB == <<"A", "B">>

Name_ab == <<" ", "a", "b", " ">>

Name_XYZ == <<"X", "Y", "Z">>

Name_QR == <<"Q", "R">>

Name_system ==
    <<" ", "S", "y", "s", "t", "e", "m", "/", "U", "n", "c", "l", "a", "s", "s", "i", "f", "i", "e", "d", "/", "R", "e", "s", "i", "d", "u", "a", "l", " ", "W", "a", "r", "d", " ">>

Text_1200 == <<"1", ",", "2", "0", "0">>

Text_500000 == <<"5", "0", "0", ",", "0", "0", "0">>

Text_unknown == <<"u", "n", "k", "n", "o", "w", "n">>

Sector_SOUTH == <<"S", "O", "U", "T", "H">>

Sector_CENTRE == <<"C", "E", "N", "T", "R", "E">>

Sector_NORTH == <<"N", "O", "R", "T", "H">>

Sector_EAST == <<"E", "A", "S", "T">>

Structure_inner == <<" ", "I", "n", "n", "e", "r", " ", "C", "i", "t", "y">>

Structure_1990s == <<"1", "9", "9", "0", "s">>

Structure_downtown == <<"D", "O", "W", "N", "T", "O", "W", "N">>

Structure_70s80s == <<"1", "9", "7", "0", "S", "/", "1", "9", "8", "0", "S">>

Area_Rural == <<"R", "u", "r", "a", "l">>

CensusRow(name, y, res, vacant, total, sector, renovation) ==
    [COMMUNITY_NAME |-> name, YEAR |-> y, RES_CNT |-> res,
     DWELLINGS_VACANT |-> vacant, DWELLINGS_TOTAL |-> total, SECTOR |-> sector,
     RENOVATION_DWELLING_CNT |-> renovation]

\* census rows: several rows of one community and year (one per dwelling
\* structure), a year out of range, the system row, counts that are zero,
\* missing, written with a thousands separator, or not a number; a count of
\* dwellings under renovation that is missing
CensusRows ==
    { CensusRow(Name_XYZ, 2016, Num(0), Num(10), Num(100), Str(Sector_SOUTH), NaN),
      CensusRow(Name_ab, 2017, Num(4), Num(1), Num(0), Str(Sector_SOUTH), Num(1)),
      CensusRow(Name_AB, 2017, Str(Text_1200), NaN, Num(3), NaN, Num(0)),
      CensusRow(Name_AB, 2015, Num(5), Num(1), Num(2), NaN, Num(0)),
      CensusRow(Name_system, 2016, Num(7), Num(1), Num(2), NaN, Num(0)),
      CensusRow(Name_AB, 2016, Num(2), Num(1), Num(4), Str(Sector_EAST), Num(0)),
      CensusRow(Name_XYZ, 2017, Str(Text_unknown), Num(1), Num(2), NaN, Num(0)) }

AssessRow(name, y, median) ==
    [COMMUNITY_NAME |-> name, YEAR |-> y, MEDIAN_ASSESSMENT |-> median]

\* assessment rows: duplicates of one community and year, a missing value,
\* a value with thousands separators, the system row, a year out of range,
\* a community the census rows never name with a value that is no number
AssessRows ==
    { AssessRow(Name_QR, 2016, Str(Text_unknown)),
      AssessRow(Name_AB, 2017, Num(500000)),
      AssessRow(Name_ab, 2017, Num(510000)),
      AssessRow(Name_XYZ, 2016, Str(Text_500000)),
      AssessRow(Name_AB, 2016, NaN),
      AssessRow(Name_system, 2016, Num(9)),
      AssessRow(Name_AB, 2015, Num(7)) }

WardRow(name, sector, wardnum, structure, area) ==
    [COMMUNITY_NAME |-> name, SECTOR |-> sector, WARD |-> wardnum,
     COMM_STRUCTURE |-> structure, comm_structure |-> structure,
     AREA_TYPE |-> area]

\* ward rows: two spellings of one community, the system row, a row with
\* nothing but the name, a community no census row names
WardRows ==
    { WardRow(Name_AB, Str(Sector_CENTRE), Num(7), Str(Structure_inner), Str(InnerCity)),
      WardRow(Name_ab, Str(Sector_NORTH), Num(2), Str(Structure_1990s), Str(Suburban)),
      WardRow(Name_system, NaN, NaN, Str(Structure_downtown), Str(InnerCity)),
      WardRow(Name_XYZ, NaN, NaN, NaN, NaN),
      WardRow(Name_QR, Str(Sector_EAST), Num(3), Str(Structure_70s80s), Str(Area_Rural)) }

\* the ward file as read: a column the file does not have holds no cell
WithColumns(row, columns) ==
    [row EXCEPT
        !.COMM_STRUCTURE = IF "COMM_STRUCTURE" \in columns THEN @ ELSE Absent,
        !.comm_structure = IF "comm_structure" \in columns THEN @ ELSE Absent,
        !.AREA_TYPE = IF "AREA_TYPE" \in columns THEN @ ELSE Absent]

----------------------------------------------------------------------------
(* The run of the loader *)

\* the optional columns of the ward file: none, the structure, the structure
\* under a lower-case header, or the structure and an area type; a ward file
\* without rows has the structure
WardColumnSets(nw) ==
    IF nw = 0 THEN {{"COMM_STRUCTURE"}}
    ELSE {{}, {"COMM_STRUCTURE"}, {"comm_structure"},
          {"COMM_STRUCTURE", "AREA_TYPE"}}

Init ==
    /\ \E nc, na, nw \in 0..MaxRows :
          /\ nc + na + nw <= MaxRows
          /\ census_csv \in [1..nc -> CensusRows]
          /\ assess_csv \in [1..na -> AssessRows]
          /\ ward_columns \in WardColumnSets(nw)
          /\ \E rows \in [1..nw -> WardRows] :
                ward_csv = [i \in 1..nw |-> WithColumns(rows[i], ward_columns)]
    /\ merged = <<>>
    /\ pc = "start"
    /\ comm_structure_value = NaN
    /\ area_type = Pending
    /\ community = None
    /\ year = None
    /\ user_community = None
    /\ user_year = None

Loaded == load_and_prepare_data(census_csv, assess_csv, ward_csv, ward_columns)

\* load_and_prepare_data returns the DataFrame
LoadReturns ==
    /\ pc = "start"
    /\ LET df == Loaded IN df.raised = "" /\ merged' = df.df
    /\ pc' = "loaded"
    /\ UNCHANGED <<census_csv, assess_csv, ward_csv, ward_columns,
                   comm_structure_value, area_type, input_vars>>

\* pd.merge(..., validate="m:1") raises MergeError
LoadRaisesMergeError ==
    /\ pc = "start"
    /\ Loaded.raised = "MergeError"
    /\ pc' = "MergeError"
    /\ UNCHANGED <<census_csv, assess_csv, ward_csv, ward_columns, merged,
                   comm_structure_value, area_type, input_vars>>

\* .astype(float) raises ValueError
LoadRaisesValueError ==
    /\ pc = "start"
    /\ Loaded.raised = "ValueError"
    /\ pc' = "ValueError"
    /\ UNCHANGED <<census_csv, assess_csv, ward_csv, ward_columns, merged,
                   comm_structure_value, area_type, input_vars>>

Next == LoadReturns \/ LoadRaisesMergeError \/ LoadRaisesValueError

Spec == Init /\ [][Next]_vars

----------------------------------------------------------------------------
(* A direct call of map_inner_city *)

Label_ESTABLISHED == <<"E", "S", "T", "A", "B", "L", "I", "S", "H", "E", "D">>

Label_CITY_CENTRE == <<"C", "I", "T", "Y", " ", "C", "E", "N", "T", "R", "E">>

Label_RESIDENTIAL == <<"R", "E", "S", "I", "D", "E", "N", "T", "I", "A", "L">>

LabelCores ==
    inner_city_structures \cup inner_city_decades \cup suburban_structures
        \cup {<<>>, Label_ESTABLISHED, Label_CITY_CENTRE, Label_RESIDENTIAL}

LabelPrefixes == {<<>>, <<" ">>, <<"O", "L", "D", " ">>}

LabelSuffixes ==
    {<<>>, <<" ", "\t">>, <<" ", "A", "R", "E", "A">>, <<"/", "1", "9", "8", "0", "S">>}

\* the texts: a core between a prefix and a suffix, as written or in lower case
Labels ==
    LET written == {p \o c \o s : p \in LabelPrefixes, c \in LabelCores, s \in LabelSuffixes}
    IN  written \cup {Lower(x) : x \in written}

\* the arguments: the texts, and values that are no text (NaN, numbers)
ClassifierInputs == {Str(x) : x \in Labels} \cup {NaN, Num(0), Num(1970)}

InitClassifier ==
    /\ census_csv = <<>>
    /\ assess_csv = <<>>
    /\ ward_csv = <<>>
    /\ ward_columns = {}
    /\ merged = <<>>
    /\ pc = "call"
    /\ comm_structure_value \in ClassifierInputs
    /\ area_type = Pending
    /\ community = None
    /\ year = None
    /\ user_community = None
    /\ user_year = None

CallMapInnerCity ==
    /\ pc = "call"
    /\ area_type' = map_inner_city(comm_structure_value)
    /\ pc' = "returned"
    /\ UNCHANGED <<census_csv, assess_csv, ward_csv, ward_columns, merged,
                   comm_structure_value, input_vars>>

\* the same call with policy B selected
CallPolicyB ==
    /\ pc = "call"
    /\ area_type' = map_inner_city_policy_b(comm_structure_value)
    /\ pc' = "returned B"
    /\ UNCHANGED <<census_csv, assess_csv, ward_csv, ward_columns, merged,
                   comm_structure_value, input_vars>>

NextClassifier == CallMapInnerCity \/ CallPolicyB

SpecClassifier == InitClassifier /\ [][NextClassifier]_vars

----------------------------------------------------------------------------
(* calgary-housing-analysis.py: CalgaryHousingAnalyzer.get_user_input *)

MaxInputRows == 2    \* rows of the census file behind the dialogue

Text_list == <<"l", "i", "s", "t">>

Text_LIST == <<"L", "I", "S", "T">>

Text_xyz == <<" ", "x", "y", "z">>

Text_2015 == <<"2", "0", "1", "5">>

Text_2016 == <<"2", "0", "1", "6">>

Text_2017 == <<" ", "2", "0", "1", "7", " ">>

\* what the user may type at the first prompt
CommunityInputs == {Text_list, Name_ab, Text_xyz, Name_QR, <<>>}

\* what the user may type at the second prompt
YearInputs == {Text_2015, Text_2016, Text_2017, Text_unknown, <<>>}

\* int(text): the digits, white space around them allowed; any other text
\* raises ValueError
ParseInt(text) ==
    LET s == Strip(text) IN IF IsDigits(s) THEN Num(DigitsValue(s)) ELSE Error

\* sorted(self.df.index.get_level_values("COMMUNITY_NAME").unique())
communities(df) == {df[i].COMMUNITY_NAME : i \in 1..Len(df)}

\* A bug: the year is not looked up in the index.
in_index_unchecked(df, name, y) == TRUE

\* (community, year) in self.df.index
in_index(df, name, y) ==
    \E i \in 1..Len(df) : df[i].COMMUNITY_NAME = name /\ df[i].YEAR = y

\* the columns handle_missing_values fills with 0, as far as the dataset of
\* the model has them
fill_zero_cols == {"DWELLINGS_VACANT", "RENOVATION_DWELLING_CNT"}

\* self.df[col] = self.df[col].fillna(0) for the columns of fill_zero_cols
handle_missing_values(df) ==
    [i \in 1..Len(df) |->
        [f \in DOMAIN df[i] |->
            IF f \in fill_zero_cols /\ df[i][f] = NaN THEN Num(0) ELSE df[i][f]]]

\* the analyzer is constructed: the dataset is loaded, nothing is selected
InitInput ==
    /\ \E nc \in 0..MaxInputRows : census_csv \in [1..nc -> CensusRows]
    /\ assess_csv = <<>>
    /\ ward_csv = <<>>
    /\ ward_columns \in WardColumnSets(0)
    /\ Loaded.raised = ""
    /\ merged = Loaded.df
    /\ pc = "constructed"
    /\ comm_structure_value = NaN
    /\ area_type = Pending
    /\ community = None
    /\ year = None
    /\ user_community = None
    /\ user_year = None

\* main calls analyzer.handle_missing_values(), then get_user_input()
HandleMissingValues ==
    /\ pc = "constructed"
    /\ merged' = handle_missing_values(merged)
    /\ pc' = "community prompt"
    /\ UNCHANGED <<census_csv, assess_csv, ward_csv, ward_columns,
                   comm_structure_value, area_type, input_vars>>

\* the user types "list": the communities are printed, the prompt returns
CommunityList ==
    /\ pc = "community prompt"
    /\ \E text \in CommunityInputs :
          /\ Upper(Strip(text)) = Text_LIST
          /\ community' = Str(Upper(Strip(text)))
    /\ UNCHANGED <<pc, year, user_community, user_year, load_vars>>

\* the user types a name the dataset does not have: the prompt returns
CommunityNotFound ==
    /\ pc = "community prompt"
    /\ \E text \in CommunityInputs :
          /\ Upper(Strip(text)) # Text_LIST
          /\ Upper(Strip(text)) \notin communities(merged)
          /\ community' = Str(Upper(Strip(text)))
    /\ UNCHANGED <<pc, year, user_community, user_year, load_vars>>

\* the user types a name of the dataset: the first loop is left
CommunityAccepted ==
    /\ pc = "community prompt"
    /\ \E text \in CommunityInputs :
          /\ Upper(Strip(text)) # Text_LIST
          /\ Upper(Strip(text)) \in communities(merged)
          /\ community' = Str(Upper(Strip(text)))
    /\ pc' = "year prompt"
    /\ UNCHANGED <<year, user_community, user_year, load_vars>>

\* int() raises ValueError: the year is asked again
YearNotInteger ==
    /\ pc = "year prompt"
    /\ \E text \in YearInputs : ParseInt(text) = Error
    /\ UNCHANGED <<pc, community, year, user_community, user_year, load_vars>>

\* A bug: a year out of range sends the user back to the community prompt.
YearOutOfRange_reopens ==
    /\ pc = "year prompt"
    /\ \E text \in YearInputs :
          /\ ParseInt(text) # Error
          /\ ParseInt(text).num \notin {2016, 2017}
          /\ year' = ParseInt(text)
    /\ pc' = "community prompt"
    /\ UNCHANGED <<community, user_community, user_year, load_vars>>

\* the year is not 2016 or 2017: ValueError, the year is asked again
YearOutOfRange ==
    /\ pc = "year prompt"
    /\ \E text \in YearInputs :
          /\ ParseInt(text) # Error
          /\ ParseInt(text).num \notin {2016, 2017}
          /\ year' = ParseInt(text)
    /\ UNCHANGED <<pc, community, user_community, user_year, load_vars>>

\* the community has no record of the year: ValueError, the year is asked again
YearWithoutData ==
    /\ pc = "year prompt"
    /\ \E text \in YearInputs :
          /\ ParseInt(text) # Error
          /\ ParseInt(text).num \in {2016, 2017}
          /\ ~in_index(merged, community.s, ParseInt(text).num)
          /\ year' = ParseInt(text)
    /\ UNCHANGED <<pc, community, user_community, user_year, load_vars>>

\* the year is accepted: the selection is stored and returned
YearAccepted ==
    /\ pc = "year prompt"
    /\ \E text \in YearInputs :
          /\ ParseInt(text) # Error
          /\ ParseInt(text).num \in {2016, 2017}
          /\ in_index(merged, community.s, ParseInt(text).num)
          /\ year' = ParseInt(text)
          /\ user_year' = ParseInt(text)
    /\ user_community' = community
    /\ pc' = "input returned"
    /\ UNCHANGED <<community, load_vars>>

NextInput ==
    \/ HandleMissingValues
    \/ CommunityList \/ CommunityNotFound \/ CommunityAccepted
    \/ YearNotInteger \/ YearOutOfRange \/ YearWithoutData \/ YearAccepted

SpecInput == InitInput /\ [][NextInput]_vars

----------------------------------------------------------------------------
(* Claims about map_inner_city *)

\* the label of the call, upper-cased and trimmed
CalledStructure == Strip(Upper(comm_structure_value.s))

\* C6, as stated: every text label that contains one of the five explicit
\* inner-city structures (any case, trimmed) is classified Inner-City.
C6_ContainingIsInnerCity ==
    (/\ pc = "returned"
     /\ comm_structure_value.kind = "str"
     /\ \E x \in inner_city_structures : Contains(CalledStructure, x))
        => area_type = Str(InnerCity)

\* C6, amended: every text label that, upper-cased and trimmed, is equal to
\* one of the five explicit inner-city structures is classified Inner-City.
C6_EqualIsInnerCity ==
    (/\ pc = "returned"
     /\ comm_structure_value.kind = "str"
     /\ CalledStructure \in inner_city_structures)
        => area_type = Str(InnerCity)

\* C6 witness: a padded, lower-case "inner city" was classified Inner-City.
C6_Witness ==
    /\ pc = "returned"
    /\ comm_structure_value = Str(<<" ", "i", "n", "n", "e", "r", " ", "c", "i", "t", "y", " ", "\t">>)
    /\ area_type = Str(InnerCity)

\* C7: map_inner_city is total: every call returns Inner-City or Suburban,
\* and it returns Suburban for every argument that is no text and for every
\* text that matches none of the rules.
C7_Total ==
    pc = "returned" =>
        /\ area_type \in {Str(InnerCity), Str(Suburban)}
        /\ comm_structure_value.kind # "str" => area_type = Str(Suburban)
        /\ (/\ comm_structure_value.kind = "str"
            /\ CalledStructure \notin inner_city_structures
            /\ \A d \in inner_city_decades : ~Contains(CalledStructure, d)
            /\ \A u \in suburban_structures : ~Contains(CalledStructure, u))
              => area_type = Str(Suburban)

\* C7 witness: a text that matches no rule was classified Suburban.
C7_Witness ==
    /\ pc = "returned"
    /\ comm_structure_value = Str(Lower(Label_ESTABLISHED))
    /\ area_type = Str(Suburban)

----------------------------------------------------------------------------
(* Claims about load_and_prepare_data *)

\* the rows of a source table that are in the years of interest and are not
\* the system row, as positions in the file
SourceRows(csv) ==
    {i \in 1..Len(csv) :
        /\ csv[i].YEAR \in {2016, 2017}
        /\ Strip(Upper(csv[i].COMMUNITY_NAME)) # EXCLUDE_NAME}

\* the key of a source row: the name upper-cased and trimmed, and the year
SourceKey(row) == <<Strip(Upper(row.COMMUNITY_NAME)), row.YEAR>>

\* the key of an output record
RecordKey(r) == <<r.COMMUNITY_NAME, r.YEAR>>

\* the assessment rows of the years of interest with the key of a record
AssessmentsOf(r) ==
    {i \in 1..Len(assess_csv) :
        /\ assess_csv[i].YEAR \in {2016, 2017}
        /\ SourceKey(assess_csv[i]) = RecordKey(r)}

FirstOf(S) == CHOOSE i \in S : \A j \in S : i <= j

\* C1, as stated: no two output records have the same (community_name,
\* year) key.
C1_KeysDistinct ==
    pc = "loaded" =>
        \A i, j \in 1..Len(merged) :
            RecordKey(merged[i]) = RecordKey(merged[j]) => i = j

\* C1, amended: the joins add no record: for every key, the output holds as
\* many records as the census holds rows of that key (in the years of
\* interest, the system row apart), so two output records share a key only
\* when two census rows do.
C1_KeysAsInCensus ==
    pc = "loaded" =>
        \A k \in {RecordKey(merged[i]) : i \in 1..Len(merged)}
                \cup {SourceKey(census_csv[i]) : i \in SourceRows(census_csv)} :
            Cardinality({i \in 1..Len(merged) : RecordKey(merged[i]) = k})
                = Cardinality({i \in SourceRows(census_csv) :
                                  SourceKey(census_csv[i]) = k})

\* C1 witness: a census row of a community that two assessment rows name,
\* loaded as one record.
C1_Witness ==
    /\ pc = "loaded"
    /\ Len(merged) = 1
    /\ Cardinality(AssessmentsOf(merged[1])) = 2

\* C2: of several assessment rows with the same (community_name, year) only
\* the first in source order is used: every output record of the key has
\* the median assessment of the first row, as a number.
C2_FirstAssessmentKept ==
    pc = "loaded" =>
        \A i \in 1..Len(merged) :
            AssessmentsOf(merged[i]) # {} =>
                merged[i].MEDIAN_ASSESSMENT =
                    to_numeric(assess_csv[FirstOf(AssessmentsOf(merged[i]))].MEDIAN_ASSESSMENT)

\* C2 witness: two assessment rows of one key with 500000 first and 510000
\* second, and the record of the key has 500000.
C2_Witness ==
    /\ pc = "loaded"
    /\ \E i \in 1..Len(merged) :
          /\ merged[i].MEDIAN_ASSESSMENT = Num(500000)
          /\ \E a, b \in AssessmentsOf(merged[i]) :
                /\ a < b
                /\ assess_csv[a].MEDIAN_ASSESSMENT = Num(500000)
                /\ assess_csv[b].MEDIAN_ASSESSMENT = Num(510000)

\* C3: no output record has the excluded name, and the rows with that name
\* (in any case, with any whitespace around it) are out of the ward table
\* before the join: they never make the join fail.
C3_NoSystemRow ==
    /\ pc = "loaded" =>
          \A i \in 1..Len(merged) :
              Strip(Upper(merged[i].COMMUNITY_NAME)) # EXCLUDE_NAME
    /\ pc = "MergeError" =>
          \E i, j \in 1..Len(ward_csv) :
              /\ i # j
              /\ Strip(Upper(ward_csv[i].COMMUNITY_NAME))
                     = Strip(Upper(ward_csv[j].COMMUNITY_NAME))
              /\ Strip(Upper(ward_csv[i].COMMUNITY_NAME)) # EXCLUDE_NAME

\* C3 witness: the census and the ward table both hold a system row, spelled
\* in mixed case with spaces around it, and the load returned a record.
C3_Witness ==
    /\ pc = "loaded"
    /\ merged # <<>>
    /\ \E i \in 1..Len(census_csv) :
          /\ census_csv[i].COMMUNITY_NAME = Name_system
          /\ census_csv[i].YEAR \in YEARS
    /\ \E i \in 1..Len(ward_csv) : ward_csv[i].COMMUNITY_NAME = Name_system

\* C4: every output record has year 2016 or 2017.
C4_YearsOfInterest ==
    pc = "loaded" => \A i \in 1..Len(merged) : merged[i].YEAR \in {2016, 2017}

\* C4 witness: census and assessment rows of 2015 were read and the load
\* returned records.
C4_Witness ==
    /\ pc = "loaded"
    /\ merged # <<>>
    /\ \E i \in 1..Len(census_csv) : census_csv[i].YEAR = 2015
    /\ \E i \in 1..Len(assess_csv) : assess_csv[i].YEAR = 2015

\* the ward rows that name the community of a record
WardRowsOf(r) ==
    {i \in 1..Len(ward_csv) :
        Strip(Upper(ward_csv[i].COMMUNITY_NAME)) = r.COMMUNITY_NAME}

\* C5, as stated: every output record has area_type Inner-City or Suburban,
\* never null.
C5_AreaTypeTotal ==
    pc = "loaded" =>
        \A i \in 1..Len(merged) :
            merged[i].AREA_TYPE \in {Str(InnerCity), Str(Suburban)}

\* C5, amended: the area_type the loader computes is total on the ward rows,
\* not on the output: when the ward file has no AREA_TYPE column of its own,
\* every output record whose community has a ward row has area_type
\* Inner-City or Suburban (Suburban when the structure is missing,
\* unrecognized or no text), and every output record whose community has no
\* ward row has a null area_type.
C5_AreaTypeOfWardRows ==
    pc = "loaded" =>
        \A i \in 1..Len(merged) :
            IF WardRowsOf(merged[i]) = {}
                THEN merged[i].AREA_TYPE = NaN
            ELSE "AREA_TYPE" \notin ward_columns =>
                     merged[i].AREA_TYPE \in {Str(InnerCity), Str(Suburban)}

\* C5 witness: a record without a ward row (null area_type) next to a record
\* whose ward row has no structure, in a ward file without a structure
\* column (Suburban).
C5_Witness ==
    /\ pc = "loaded"
    /\ ward_columns = {}
    /\ \E i, j \in 1..Len(merged) :
          /\ WardRowsOf(merged[i]) = {}
          /\ merged[i].AREA_TYPE = NaN
          /\ WardRowsOf(merged[j]) # {}
          /\ merged[j].AREA_TYPE = Str(Suburban)

\* C8: in every output record, vacancy_rate is null when dwellings_total is
\* 0, and is exactly dwellings_vacant / dwellings_total when dwellings_total
\* is greater than 0.
C8_VacancyRate ==
    pc = "loaded" =>
        \A i \in 1..Len(merged) :
            LET r == merged[i] IN
            /\ r.DWELLINGS_TOTAL.kind = "num"
            /\ r.DWELLINGS_VACANT.kind = "num"
            /\ r.DWELLINGS_TOTAL.num = 0 => r.VACANCY_RATE = NaN
            /\ r.DWELLINGS_TOTAL.num > 0 =>
                  /\ r.VACANCY_RATE.kind = "num"
                  /\ r.VACANCY_RATE.num * r.DWELLINGS_TOTAL.num * r.DWELLINGS_VACANT.den
                         = r.DWELLINGS_VACANT.num * r.DWELLINGS_TOTAL.den * r.VACANCY_RATE.den

\* C8 witness: a record with 1 vacant dwelling of 4 and the rate 1/4 next to
\* a record with no dwelling and no rate.
C8_Witness ==
    /\ pc = "loaded"
    /\ \E i, j \in 1..Len(merged) :
          /\ merged[i].DWELLINGS_TOTAL = Num(4)
          /\ merged[i].DWELLINGS_VACANT = Num(1)
          /\ merged[i].VACANCY_RATE = [kind |-> "num", num |-> 1, den |-> 4]
          /\ merged[j].DWELLINGS_TOTAL = Num(0)
          /\ merged[j].VACANCY_RATE = NaN

\* C9: in every output record with resident_count 0, assessment_per_person
\* is null, whatever vacancy_rate is: with 10 vacant dwellings of 100 the
\* vacancy_rate of such a record is 1/10.
C9_NoResidents ==
    pc = "loaded" =>
        \A i \in 1..Len(merged) :
            LET r == merged[i] IN
            IsZero(r.RES_CNT) =>
                /\ r.ASSESSMENT_PER_PERSON = NaN
                /\ (r.DWELLINGS_TOTAL = Num(100) /\ r.DWELLINGS_VACANT = Num(10))
                      => r.VACANCY_RATE = [kind |-> "num", num |-> 1, den |-> 10]

\* C9 witness: a record with no resident, an assessment of 500000, 10 vacant
\* dwellings of 100, no assessment per person and the vacancy rate 1/10.
C9_Witness ==
    /\ pc = "loaded"
    /\ \E i \in 1..Len(merged) :
          /\ merged[i].RES_CNT = Num(0)
          /\ merged[i].MEDIAN_ASSESSMENT = Num(500000)
          /\ merged[i].DWELLINGS_TOTAL = Num(100)
          /\ merged[i].DWELLINGS_VACANT = Num(10)
          /\ merged[i].ASSESSMENT_PER_PERSON = NaN
          /\ merged[i].VACANCY_RATE = [kind |-> "num", num |-> 1, den |-> 10]

\* C10: a missing median assessment stays null: every output record whose
\* key has no assessment row, or whose assessment row has no value, has a
\* null median_assessment and a null assessment_per_person.
C10_MissingAssessmentIsNull ==
    pc = "loaded" =>
        \A i \in 1..Len(merged) :
            (\/ AssessmentsOf(merged[i]) = {}
             \/ assess_csv[FirstOf(AssessmentsOf(merged[i]))].MEDIAN_ASSESSMENT = NaN)
                => /\ merged[i].MEDIAN_ASSESSMENT = NaN
                   /\ merged[i].ASSESSMENT_PER_PERSON = NaN

\* the census rows (years of interest, system row apart) with the key of a
\* record
CensusRowsOf(r) ==
    {i \in SourceRows(census_csv) : SourceKey(census_csv[i]) = RecordKey(r)}

Unparsable(v) == v.kind = "str" /\ ParseFloat(RemoveCommas(v.s)) = Error

\* C12: a base-column value that cannot be parsed as a number is recovered as
\* 0 and the load completes (no join having failed).
C12_UnparsableBecomesZero ==
    \A c \in SourceRows(census_csv) :
        (pc \notin {"start", "MergeError"} /\ Unparsable(census_csv[c].RES_CNT))
            => /\ pc = "loaded"
               /\ \E i \in 1..Len(merged) :
                     /\ RecordKey(merged[i]) = SourceKey(census_csv[c])
                     /\ merged[i].RES_CNT = Num(0)

\* two rows of the ward table, read in distinct positions, whose normalized
\* names equal that of a census row of a year of interest other than the
\* system row
CensusNameInTwoWardRows ==
    \E c \in SourceRows(census_csv) : \E i, j \in 1..Len(ward_csv) :
        /\ i # j
        /\ Strip(Upper(ward_csv[i].COMMUNITY_NAME)) = SourceKey(census_csv[c])[1]
        /\ Strip(Upper(ward_csv[j].COMMUNITY_NAME)) = SourceKey(census_csv[c])[1]

\* C13: when a census community name matches more than one ward row the load
\* aborts with the merge error and no dataset exists, partial or multiplied.
C13_WardMatchFatal ==
    (pc # "start" /\ CensusNameInTwoWardRows)
        => (pc = "MergeError" /\ merged = <<>>)

\* C13 witness: the load has aborted on a census name with two ward rows.
C13_Witness ==
    pc = "MergeError" /\ CensusNameInTwoWardRows /\ merged = <<>>

\* the normalized names of the census rows of the years of interest, the
\* system row apart
CensusNames == {SourceKey(census_csv[c])[1] : c \in SourceRows(census_csv)}

\* the rows of a source table whose community occurs in a census row
Matched(csv) ==
    LET Named(row) == Strip(Upper(row.COMMUNITY_NAME)) \in CensusNames
    IN  SelectSeq(csv, Named)

\* the load has ended as the call l of load_and_prepare_data ends
EndedAs(l) ==
    /\ pc = (IF l.raised = "" THEN "loaded" ELSE l.raised)
    /\ merged = l.df

\* the names of the ward table, normalized, are those of distinct rows
WardNamesDistinct ==
    \A i, j \in 1..Len(ward_csv) :
        (/\ Strip(Upper(ward_csv[i].COMMUNITY_NAME)) = Strip(Upper(ward_csv[j].COMMUNITY_NAME))
         /\ Strip(Upper(ward_csv[i].COMMUNITY_NAME)) # EXCLUDE_NAME) => i = j

\* C14 as stated: the ward rows and assessment rows of communities no census
\* row names are dropped silently: the load ends as it ends without them,
\* and no record has such a name.
C14_UnmatchedDropped ==
    pc # "start" =>
        /\ EndedAs(load_and_prepare_data(census_csv, Matched(assess_csv),
                                         Matched(ward_csv), ward_columns))
        /\ \A i \in 1..Len(merged) : merged[i].COMMUNITY_NAME \in CensusNames

\* C14 amended: the assessment rows of communities no census row names are
\* dropped silently whatever their number and content, and so are such ward
\* rows when the ward names are distinct: the load ends as it ends without
\* them, and no record has such a name; two ward rows of one name abort the
\* load even when no census row names them.
C14_UnmatchedDroppedDistinctWards ==
    pc # "start" =>
        /\ ~WardNamesDistinct => pc = "MergeError"
        /\ (WardNamesDistinct /\ (Matched(assess_csv) # assess_csv \/ Matched(ward_csv) # ward_csv))
              => EndedAs(load_and_prepare_data(census_csv, Matched(assess_csv),
                                               Matched(ward_csv), ward_columns))
        /\ \A i \in 1..Len(merged) : merged[i].COMMUNITY_NAME \in CensusNames

\* C14 witness: a load that returned records although an assessment row that
\* holds no number and a ward row belong to communities no census row names.
C14_Witness ==
    /\ pc = "loaded"
    /\ Len(merged) > 0
    /\ \E a \in 1..Len(assess_csv) :
          /\ Strip(Upper(assess_csv[a].COMMUNITY_NAME)) \notin CensusNames
          /\ Unparsable(assess_csv[a].MEDIAN_ASSESSMENT)
    /\ \E w \in 1..Len(ward_csv) :
          Strip(Upper(ward_csv[w].COMMUNITY_NAME)) \notin CensusNames

\* C15: the returned dataset is sorted ascending by (community_name, year):
\* of two neighbouring records the later one has the greater name, or the
\* same name and a year not smaller.
C15_SortedByKey ==
    pc = "loaded" =>
        \A i \in 1..(Len(merged) - 1) :
            \/ StrLess(merged[i].COMMUNITY_NAME, merged[i + 1].COMMUNITY_NAME)
            \/ /\ merged[i].COMMUNITY_NAME = merged[i + 1].COMMUNITY_NAME
               /\ merged[i].YEAR <= merged[i + 1].YEAR

\* C15 witness: the census file names a later key first, and the dataset
\* returns the records in the order of the keys.
C15_Witness ==
    /\ pc = "loaded"
    /\ Len(merged) >= 2
    /\ Len(census_csv) = Len(merged)
    /\ \E i \in 1..(Len(census_csv) - 1) :
          \/ StrLess(SourceKey(census_csv[i + 1])[1], SourceKey(census_csv[i])[1])
          \/ /\ SourceKey(census_csv[i + 1])[1] = SourceKey(census_csv[i])[1]
             /\ census_csv[i + 1].YEAR < census_csv[i].YEAR

\* C16: under policy B, selected for a call in the place of policy A, a
\* label that is no text gives Suburban, a text whose upper-cased form, not
\* trimmed, is exactly CITY CENTRE, ESTABLISHED or INNER CITY gives
\* Inner-City, and every other text gives Suburban.
C16_PolicyB ==
    pc = "returned B" =>
          area_type =
              IF /\ comm_structure_value.kind = "str"
                 /\ Upper(comm_structure_value.s) \in
                        {Label_CITY_CENTRE, Label_ESTABLISHED,
                         <<"I", "N", "N", "E", "R", " ", "C", "I", "T", "Y">>}
              THEN Str(InnerCity) ELSE Str(Suburban)

\* C16 witness: under policy B "established" was classified Inner-City.
C16_Witness ==
    /\ pc = "returned B"
    /\ comm_structure_value = Str(Lower(Label_ESTABLISHED))
    /\ area_type = Str(InnerCity)

\* C18: for a text label map_inner_city returns Inner-City exactly when the
\* upper-cased, trimmed label is one of the five explicit inner-city
\* structures or contains a pre-1980s decade token, and Suburban otherwise,
\* a suburban token in the label notwithstanding.
C18_InnerCityExactlyWhen ==
    (pc = "returned" /\ comm_structure_value.kind = "str") =>
        area_type =
            IF \/ CalledStructure \in inner_city_structures
               \/ \E decade \in inner_city_decades : Contains(CalledStructure, decade)
            THEN Str(InnerCity) ELSE Str(Suburban)

\* C18 witness: "1970S/1980S", which holds a pre-1980s token and a suburban
\* token, was classified Inner-City.
C18_Witness ==
    /\ pc = "returned"
    /\ comm_structure_value = Str(<<"1", "9", "7", "0", "S", "/", "1", "9", "8", "0", "S">>)
    /\ \E suburban \in suburban_structures : Contains(CalledStructure, suburban)
    /\ area_type = Str(InnerCity)

\* C17: get_user_input returns only a pair (community, year) with a year of
\* 2016 or 2017 that is a key of the dataset, and user_community and
\* user_year then hold the returned pair.
C17_ReturnsKeyOfDataset ==
    pc = "input returned" =>
        /\ community.kind = "str"
        /\ year \in {Num(2016), Num(2017)}
        /\ \E i \in 1..Len(merged) : RecordKey(merged[i]) = <<community.s, year.num>>
        /\ user_community = community
        /\ user_year = year

\* C17 witness: after a name and years that were refused, a pair typed as
\* " ab " and " 2017 " is returned as ("AB", 2017).
C17_Witness ==
    /\ pc = "input returned"
    /\ user_community = Str(Name_AB)
    /\ user_year = Num(2017)
    /\ Len(merged) = 2

\* C19: the joins compare the names upper-cased and trimmed: every output
\* name is upper-cased and trimmed, a record has the sector and the ward of
\* the ward row whose name is its own up to letter case and surrounding
\* white space, and the median assessment of the first such assessment row
\* of its year.
C19_JoinsOnNormalizedNames ==
    pc = "loaded" =>
        \A i \in 1..Len(merged) :
            LET r == merged[i] IN
            /\ r.COMMUNITY_NAME = Strip(Upper(r.COMMUNITY_NAME))
            /\ \E c \in SourceRows(census_csv) : SourceKey(census_csv[c]) = RecordKey(r)
            /\ \A w \in WardRowsOf(r) :
                  r.SECTOR = ward_csv[w].SECTOR /\ r.WARD = ward_csv[w].WARD
            /\ AssessmentsOf(r) # {} =>
                  r.MEDIAN_ASSESSMENT =
                      to_numeric(assess_csv[FirstOf(AssessmentsOf(r))].MEDIAN_ASSESSMENT)

\* C19 witness: the census names " ab ", the ward table and the assessment
\* table name "AB", and the record "AB" has the sector, the ward and the
\* median assessment of these rows.
C19_Witness ==
    /\ pc = "loaded"
    /\ \E c \in 1..Len(census_csv) : census_csv[c].COMMUNITY_NAME = Name_ab
    /\ \E w \in 1..Len(ward_csv) : ward_csv[w].COMMUNITY_NAME = Name_AB
    /\ \E a \in 1..Len(assess_csv) : assess_csv[a].COMMUNITY_NAME = Name_AB
    /\ \E i \in 1..Len(merged) :
          /\ merged[i].COMMUNITY_NAME = Name_AB
          /\ merged[i].SECTOR = Str(Sector_CENTRE)
          /\ merged[i].WARD = Num(7)
          /\ merged[i].MEDIAN_ASSESSMENT = Num(500000)

\* C20: the sector and the area_type of every output record are those of
\* the ward table: a record whose community has a ward row has that row's
\* sector, ward and area_type, whatever sector its census row held, and a
\* record whose community has no ward row has a null sector, a null ward and
\* a null area_type.
C20_SectorFromWardOnly ==
    pc = "loaded" =>
        \A i \in 1..Len(merged) :
            LET r == merged[i] IN
            /\ {"SECTOR", "WARD", "AREA_TYPE"} \subseteq DOMAIN r
            /\ IF WardRowsOf(r) = {}
                  THEN r.SECTOR = NaN /\ r.WARD = NaN /\ r.AREA_TYPE = NaN
               ELSE \A w \in WardRowsOf(r) :
                        /\ r.SECTOR = ward_csv[w].SECTOR
                        /\ r.WARD = ward_csv[w].WARD
                        /\ r.AREA_TYPE = ward_area_type(ward_csv[w], ward_columns)

\* C20 witness: the census rows name a sector; the record without a ward row
\* has a null sector, the record with a ward row has the ward row's sector.
C20_Witness ==
    /\ pc = "loaded"
    /\ \A c \in 1..Len(census_csv) : census_csv[c].SECTOR = Str(Sector_SOUTH)
    /\ \E i, j \in 1..Len(merged) :
          /\ WardRowsOf(merged[i]) = {}
          /\ merged[i].SECTOR = NaN
          /\ merged[i].WARD = NaN
          /\ WardRowsOf(merged[j]) # {}
          /\ merged[j].SECTOR = Str(Sector_CENTRE)

\* the headers of the model that contain "comm_structure" or "category",
\* letter case apart
StructureHeaders == {"COMM_STRUCTURE", "comm_structure"}

\* C21: a ward file without an AREA_TYPE column gets it from the classifier
\* applied to the column whose header contains "comm_structure" or
\* "category", letter case apart, and from Suburban only when it has no such
\* column: a record with a ward row has the classification of that row's
\* structure.
C21_StructureColumnFound ==
    (pc = "loaded" /\ "AREA_TYPE" \notin ward_columns) =>
        \A i \in 1..Len(merged) : \A w \in WardRowsOf(merged[i]) :
            merged[i].AREA_TYPE =
                IF ward_columns \cap StructureHeaders = {} THEN Str(Suburban)
                ELSE map_inner_city(
                        ward_csv[w][CHOOSE h \in ward_columns \cap StructureHeaders : TRUE])

\* a step of get_user_input asks again, goes on to the year, or returns
RetryOrAccept ==
    /\ merged' = merged
    /\ pc' # "input returned" =>
          (user_community' = user_community /\ user_year' = user_year)
    /\ pc = "community prompt" => pc' \in {"community prompt", "year prompt"}
    /\ pc = "year prompt" => pc' \in {"year prompt", "input returned"}
    /\ pc = "year prompt" => community' = community

\* C22: in get_user_input a rejected input leads to a new prompt of the same
\* stage: no step of it changes the dataset, a step that does not return leaves
\* user_community and user_year as they were, the community prompt is left
\* only for the year prompt, and the year prompt is left only by the return,
\* with the community that was accepted.
C22_RejectedInputRetries ==
    [][(pc = "community prompt" \/ pc = "year prompt") => RetryOrAccept]_vars

\* C22 witness: the year 2015 was typed and rejected; the year is asked for
\* again, the community accepted before is kept and nothing is selected yet.
C22_Witness ==
    /\ pc = "year prompt"
    /\ year = Num(2015)
    /\ community = Str(Name_AB)
    /\ user_community = None
    /\ user_year = None

\* C23: once the dataset is returned no later operation of the run changes
\* a field value of a record.
C23_DatasetNeverChanged == [][merged' = merged]_vars

\* C24: whenever the load completes, the dataset has as many records as the
\* census has rows of the years of interest other than the system row,
\* whatever the ward table and the assessment table hold.
C24_CensusDrivesRowCount ==
    pc = "loaded" => Len(merged) = Cardinality(SourceRows(census_csv))

\* C24 witness: of two census rows one passes the filters, the assessment
\* table has a row but none for it, and the dataset has one record.
C24_Witness ==
    /\ pc = "loaded"
    /\ Len(census_csv) = 2
    /\ Len(assess_csv) = 1
    /\ Len(merged) = 1
    /\ AssessmentsOf(merged[1]) = {}

\* C25: the many-to-one check of the join with the assessment table never
\* fails: after the deduplication, the removal of the system row and the
\* column drops the assessment table has one row per (community_name, year)
\* at most, so a load that ends in the merge error has two ward rows of one
\* name.
C25_AssessJoinNeverFails ==
    /\ assess_keys_unique(
           drop_redundant_columns(drop_excluded(drop_duplicates(
               clean_names(FilterYears(assess_csv))))))
    /\ pc = "MergeError" => ~WardNamesDistinct

\* C25 witness: the assessment file holds two rows of one community and year,
\* and the load completed.
C25_Witness ==
    /\ pc = "loaded"
    /\ Len(merged) > 0
    /\ \E a, b \in 1..Len(assess_csv) :
          /\ a # b
          /\ assess_csv[a].YEAR \in YEARS
          /\ SourceKey(assess_csv[a]) = SourceKey(assess_csv[b])

=============================================================================
